---- MODULE Spec2Model ----
(***************************************************************************)
(* Model of projzst (src/src/lib.rs): the .pjz container codec.            *)
(*                                                                         *)
(*   file   = [skippable frame]+ [tar.zst stream]                          *)
(*   frame  = magic:u32-le in 0x184D2A50..0x184D2A5F ++ size:u32-le ++     *)
(*            size bytes of MessagePack-encoded Metadata                   *)
(*                                                                         *)
(* Byte strings (Vec<u8>, file contents, String as UTF-8) are kept         *)
(* run-length encoded, so that a buffer of 10 MiB is a small value: a byte *)
(* string is a sequence of runs [b |-> byte, n |-> count] in which         *)
(* adjacent runs carry different bytes.  Every operator below computes on  *)
(* the bytes the runs stand for.                                           *)
(***************************************************************************)
EXTENDS Integers, Sequences, FiniteSets, TLC

----------------------------------------------------------------------------
(* Byte strings *)

\* A run of n copies of byte b (the empty string when n = 0).
Rep(b, n) == IF n = 0 THEN << >> ELSE << [b |-> b, n |-> n] >>

\* Concatenation (Vec::extend_from_slice, consecutive write_all calls).
BCat(s, t) ==
    IF s = << >> THEN t
    ELSE IF t = << >> THEN s
    ELSE IF s[Len(s)].b = t[1].b
         THEN SubSeq(s, 1, Len(s) - 1)
              \o << [b |-> t[1].b, n |-> s[Len(s)].n + t[1].n] >>
              \o Tail(t)
         ELSE s \o t

RECURSIVE B(_)
\* The byte string holding the bytes of the flat sequence f.
B(f) == IF f = << >> THEN << >> ELSE BCat(Rep(f[1], 1), B(Tail(f)))

RECURSIVE BLen(_)
\* Number of bytes (Vec::len, file length).
BLen(s) == IF s = << >> THEN 0 ELSE s[1].n + BLen(Tail(s))

RECURSIVE BTake(_, _)
\* The first n bytes of s (all of s when it is shorter).
BTake(s, n) ==
    IF n = 0 \/ s = << >> THEN << >>
    ELSE IF s[1].n >= n THEN << [b |-> s[1].b, n |-> n] >>
    ELSE << s[1] >> \o BTake(Tail(s), n - s[1].n)

RECURSIVE BDrop(_, _)
\* s without its first n bytes.
BDrop(s, n) ==
    IF n = 0 \/ s = << >> THEN s
    ELSE IF s[1].n > n THEN << [b |-> s[1].b, n |-> s[1].n - n] >> \o Tail(s)
    ELSE BDrop(Tail(s), n - s[1].n)

\* The bytes at offsets from .. from+n-1.
BSlice(s, from, n) == BTake(BDrop(s, from), n)

RECURSIVE BAt(_, _)
\* The byte at 1-based index i.
BAt(s, i) == IF i <= s[1].n THEN s[1].b ELSE BAt(Tail(s), i - s[1].n)

RECURSIVE BFlat(_)
\* The flat sequence of the bytes of a (short) byte string.
BFlat(s) ==
    IF s = << >> THEN << >>
    ELSE << s[1].b >> \o BFlat(Rep(s[1].b, s[1].n - 1) \o Tail(s))

----------------------------------------------------------------------------
(* Wide unsigned integers.  u32 values and usize sums exceed TLC's native  *)
(* integers, so they are kept as [hi, lo] with value hi*65536 + lo,        *)
(* 0 <= lo < 65536.  No sum formed by the program reaches 2^64 (the        *)
(* largest is 10 MiB + 2^32 - 1), so 64-bit usize arithmetic never wraps.  *)

Wide(n) == [hi |-> n \div 65536, lo |-> n % 65536]

WideAdd(a, b) ==
    [hi |-> a.hi + b.hi + ((a.lo + b.lo) \div 65536), lo |-> (a.lo + b.lo) % 65536]

WideGt(a, b) == a.hi > b.hi \/ (a.hi = b.hi /\ a.lo > b.lo)

WideGe(a, b) == a = b \/ WideGt(a, b)

\* Defined for values below 2^31 only.
Narrow(a) == a.hi * 65536 + a.lo

\* u32::from_le_bytes on a flat sequence of 4 bytes.
u32_from_le_bytes(f) == [hi |-> f[4] * 256 + f[3], lo |-> f[2] * 256 + f[1]]

\* (n as u32).to_le_bytes(): the low 32 bits of n, least significant first.
u32_to_le_bytes(n) ==
    B(<< n % 256, (n \div 256) % 256, (n \div 65536) % 256, (n \div 16777216) % 256 >>)

\* to_le_bytes of a u32 held wide.
wide_to_le_bytes(a) ==
    B(<< a.lo % 256, a.lo \div 256, a.hi % 256, (a.hi \div 256) % 256 >>)

----------------------------------------------------------------------------
(* serde_json::Value and Metadata *)

\* serde_json::Value: a tagged record; an object is a function from its keys
\* (byte strings) to values, so key order is irrelevant.
JNull == [t |-> "null", v |-> 0]
JBool(x) == [t |-> "bool", v |-> x]
JNum(n) == [t |-> "num", v |-> n]
JStr(s) == [t |-> "str", v |-> s]
JArr(q) == [t |-> "arr", v |-> q]
JObj(f) == [t |-> "obj", v |-> f]

\* serde_json::Map::new()
EmptyMap == [k \in {} |-> JNull]

\* Value::is_object
is_object(j) == j.t = "obj"

\* Map::insert: sets key k, overwriting a previous value.
MapInsert(f, k, x) == [y \in DOMAIN f \cup {k} |-> IF y = k THEN x ELSE f[y]]

\* Option<String>
None == [some |-> FALSE, v |-> << >>]
Some(s) == [some |-> TRUE, v |-> s]

\* Field names, in declaration order.
KeyName == B(<< 110, 97, 109, 101 >>)
KeyAuth == B(<< 97, 117, 116, 104 >>)
KeyFmt == B(<< 102, 109, 116 >>)
KeyEd == B(<< 101, 100 >>)
KeyVer == B(<< 118, 101, 114 >>)
KeyDesc == B(<< 100, 101, 115, 99 >>)
KeyExtra == B(<< 101, 120, 116, 114, 97 >>)
KeyIgnored == B(<< 105, 103, 110, 111, 114, 101, 100 >>)

\* The struct's fields as the derive sees them.
FieldKeys == << KeyName, KeyAuth, KeyFmt, KeyEd, KeyVer, KeyDesc, KeyExtra >>

\* known_fields of the Export branch.
known_fields == { KeyName, KeyAuth, KeyFmt, KeyEd, KeyVer, KeyDesc, KeyExtra }

\* struct Metadata
Meta(name, auth, fmt, ed, ver, desc, extra) ==
    [name |-> name, auth |-> auth, fmt |-> fmt, ed |-> ed, ver |-> ver,
     desc |-> desc, extra |-> extra]

\* impl Default for Metadata
MetadataDefault == Meta(None, None, None, None, None, None, JObj(EmptyMap))

\* Metadata::new
MetadataNew(name, auth, fmt, ed, ver, desc) ==
    Meta(name, auth, fmt, ed, ver, desc, JObj(EmptyMap))

\* Metadata::with_extra
with_extra(m, extra) == [m EXCEPT !.extra = extra]

\* What #[serde(default)] fills in for a field the input does not carry:
\* Option::default() is None, serde_json::Value::default() is Null.
SerdeDefault == Meta(None, None, None, None, None, None, JNull)

\* merge_unknown_fields copying the unknown keys into extra itself instead of
\* extra.ignored.
MergeIntoExtra(m, unknown) ==
    IF ~is_object(unknown) THEN m
    ELSE LET extra_map == IF is_object(m.extra) THEN m.extra.v ELSE EmptyMap
         IN [m EXCEPT !.extra =
                JObj([k \in DOMAIN extra_map \cup DOMAIN unknown.v |->
                         IF k \in DOMAIN unknown.v THEN unknown.v[k] ELSE extra_map[k]])]

\* merge_unknown_fields letting a key already in extra.ignored win over the
\* unknown key of the same name.
MergeKeepsOld(m, unknown) ==
    IF ~is_object(unknown) THEN m
    ELSE LET extra_map == IF is_object(m.extra) THEN m.extra.v ELSE EmptyMap
             ignored == IF KeyIgnored \in DOMAIN extra_map
                           /\ is_object(extra_map[KeyIgnored])
                        THEN extra_map[KeyIgnored].v
                        ELSE EmptyMap
             merged == [k \in DOMAIN ignored \cup DOMAIN unknown.v |->
                           IF k \in DOMAIN ignored THEN ignored[k] ELSE unknown.v[k]]
         IN [m EXCEPT !.extra = JObj(MapInsert(extra_map, KeyIgnored, JObj(merged)))]

\* Metadata::merge_unknown_fields
merge_unknown_fields(m, unknown) ==
    IF ~is_object(unknown) THEN m
    ELSE LET extra_map == IF is_object(m.extra) THEN m.extra.v ELSE EmptyMap
             ignored == IF KeyIgnored \in DOMAIN extra_map
                           /\ is_object(extra_map[KeyIgnored])
                        THEN extra_map[KeyIgnored].v
                        ELSE EmptyMap
             merged == [k \in DOMAIN ignored \cup DOMAIN unknown.v |->
                           IF k \in DOMAIN unknown.v THEN unknown.v[k] ELSE ignored[k]]
         IN [m EXCEPT !.extra = JObj(MapInsert(extra_map, KeyIgnored, JObj(merged)))]

----------------------------------------------------------------------------
(* MessagePack (rmp_serde).  A MessagePack value is a tagged record; a map  *)
(* is the sequence of its <<key, value>> pairs in wire order.  The formats  *)
(* covered are the ones the values of this model encode to: nil, bool,      *)
(* positive fixint, fixstr/str8/str16/str32, fixarray and fixmap; strings   *)
(* are valid UTF-8 and map keys are strings.                                *)

MNil == [t |-> "nil", v |-> 0]
MBool(x) == [t |-> "bool", v |-> x]
MInt(n) == [t |-> "int", v |-> n]
MStr(s) == [t |-> "str", v |-> s]
MArr(q) == [t |-> "arr", v |-> q]
MMap(q) == [t |-> "map", v |-> q]

\* Byte-wise lexicographic order on keys (the order of serde_json's BTreeMap).
RECURSIVE FlatLess(_, _)
FlatLess(a, b) ==
    IF b = << >> THEN FALSE
    ELSE IF a = << >> THEN TRUE
    ELSE IF a[1] # b[1] THEN a[1] < b[1]
    ELSE FlatLess(Tail(a), Tail(b))

KeyLess(a, b) == FlatLess(BFlat(a), BFlat(b))

RECURSIVE SortedKeys(_)
\* The keys of a map in iteration order.
SortedKeys(S) ==
    IF S = {} THEN << >>
    ELSE LET k == CHOOSE x \in S : \A y \in S \ {x} : KeyLess(x, y)
         IN << k >> \o SortedKeys(S \ {k})

RECURSIVE SerValue(_)
\* impl Serialize for serde_json::Value, into the MessagePack data model.
SerValue(j) ==
    CASE j.t = "null" -> MNil
      [] j.t = "bool" -> MBool(j.v)
      [] j.t = "num" -> MInt(j.v)
      [] j.t = "str" -> MStr(j.v)
      [] j.t = "arr" -> MArr([i \in 1..Len(j.v) |-> SerValue(j.v[i])])
      [] j.t = "obj" ->
            LET ks == SortedKeys(DOMAIN j.v)
            IN MMap([i \in 1..Len(ks) |-> << MStr(ks[i]), SerValue(j.v[ks[i]]) >>])

\* Option<String> written as a string in both cases, None as the empty one.
SerOptAsString(o) == MStr(o.v)

\* Serialize for Option<String>: None is nil, Some(s) is the string.
SerOpt(o) == IF o.some THEN MStr(o.v) ELSE MNil

\* #[derive(Serialize)] for Metadata under rmp_serde::to_vec, which writes a
\* struct as the array of its field values (no field names).
SerMetadata(m) ==
    MArr(<< SerOpt(m.name), SerOpt(m.auth), SerOpt(m.fmt), SerOpt(m.ed),
            SerOpt(m.ver), SerOpt(m.desc), SerValue(m.extra) >>)

\* The header of a string of n bytes: fixstr, str8, str16 or str32
\* (lengths are big-endian).
StrHeader(n) ==
    IF n < 32 THEN B(<< 160 + n >>)
    ELSE IF n < 256 THEN B(<< 217, n >>)
    ELSE IF n < 65536 THEN B(<< 218, n \div 256, n % 256 >>)
    ELSE B(<< 219, (n \div 16777216) % 256, (n \div 65536) % 256,
              (n \div 256) % 256, n % 256 >>)

RECURSIVE EncMP(_)
RECURSIVE EncSeq(_)
RECURSIVE EncPairs(_)
\* The bytes of a MessagePack value (containers of fewer than 16 items).
EncMP(x) ==
    CASE x.t = "nil" -> B(<< 192 >>)
      [] x.t = "bool" -> B(<< IF x.v THEN 195 ELSE 194 >>)
      [] x.t = "int" -> B(<< x.v >>)
      [] x.t = "str" -> BCat(StrHeader(BLen(x.v)), x.v)
      [] x.t = "arr" -> BCat(B(<< 144 + Len(x.v) >>), EncSeq(x.v))
      [] x.t = "map" -> BCat(B(<< 128 + Len(x.v) >>), EncPairs(x.v))

EncSeq(q) == IF q = << >> THEN << >> ELSE BCat(EncMP(q[1]), EncSeq(Tail(q)))

EncPairs(q) ==
    IF q = << >> THEN << >>
    ELSE BCat(BCat(EncMP(q[1][1]), EncMP(q[1][2])), EncPairs(Tail(q)))

\* rmp_serde::to_vec(&metadata)
to_vec(m) == EncMP(SerMetadata(m))

\* Reading one value off the front of s: [ok, val, rest]; not ok when the
\* input ends inside the value or starts with a byte that begins no value.
ParseFail == [ok |-> FALSE, val |-> MNil, rest |-> << >>]
ParseOk(x, r) == [ok |-> TRUE, val |-> x, rest |-> r]

\* A string of n bytes at the front of r.
ParseStr(r, n) ==
    IF BLen(r) < n THEN ParseFail ELSE ParseOk(MStr(BTake(r, n)), BDrop(r, n))

RECURSIVE ParseMP(_)
RECURSIVE ParseSeq(_, _, _)
RECURSIVE ParsePairs(_, _, _)
ParseMP(s) ==
    IF s = << >> THEN ParseFail
    ELSE LET m == s[1].b
             r == BDrop(s, 1)
         IN CASE m < 128 -> ParseOk(MInt(m), r)
              [] m \in 128..143 -> ParsePairs(r, m - 128, << >>)
              [] m \in 144..159 -> ParseSeq(r, m - 144, << >>)
              [] m \in 160..191 -> ParseStr(r, m - 160)
              [] m = 192 -> ParseOk(MNil, r)
              [] m = 194 -> ParseOk(MBool(FALSE), r)
              [] m = 195 -> ParseOk(MBool(TRUE), r)
              [] m = 217 ->
                    IF BLen(r) < 1 THEN ParseFail
                    ELSE ParseStr(BDrop(r, 1), BAt(r, 1))
              [] m = 218 ->
                    IF BLen(r) < 2 THEN ParseFail
                    ELSE ParseStr(BDrop(r, 2), BAt(r, 1) * 256 + BAt(r, 2))
              [] m = 219 ->
                    IF BLen(r) < 4 THEN ParseFail
                    ELSE LET f == BFlat(BTake(r, 4))
                             n == [hi |-> f[1] * 256 + f[2], lo |-> f[3] * 256 + f[4]]
                         IN IF WideGt(n, Wide(BLen(r) - 4)) THEN ParseFail
                            ELSE ParseStr(BDrop(r, 4), Narrow(n))
              [] OTHER -> ParseFail

\* n more elements of an array, acc the ones read so far.
ParseSeq(r, n, acc) ==
    IF n = 0 THEN ParseOk(MArr(acc), r)
    ELSE LET p == ParseMP(r)
         IN IF ~p.ok THEN ParseFail ELSE ParseSeq(p.rest, n - 1, Append(acc, p.val))

\* n more entries of a map.
ParsePairs(r, n, acc) ==
    IF n = 0 THEN ParseOk(MMap(acc), r)
    ELSE LET k == ParseMP(r)
         IN IF ~k.ok THEN ParseFail
            ELSE LET x == ParseMP(k.rest)
                 IN IF ~x.ok THEN ParseFail
                    ELSE ParsePairs(x.rest, n - 1, Append(acc, << k.val, x.val >>))

----------------------------------------------------------------------------
(* Deserialization *)

DeFail == [ok |-> FALSE, val |-> JNull]
DeOk(x) == [ok |-> TRUE, val |-> x]

\* Deserialize for Option<String>: nil is None, a string is Some, anything
\* else is an invalid type.
DeOpt(x) ==
    CASE x.t = "nil" -> [ok |-> TRUE, val |-> None]
      [] x.t = "str" -> [ok |-> TRUE, val |-> Some(x.v)]
      [] OTHER -> [ok |-> FALSE, val |-> None]

RECURSIVE DeValue(_)
RECURSIVE DeValueSeq(_, _)
RECURSIVE DeValueMap(_, _)
\* Deserialize for serde_json::Value from a MessagePack value.
DeValue(x) ==
    CASE x.t = "nil" -> DeOk(JNull)
      [] x.t = "bool" -> DeOk(JBool(x.v))
      [] x.t = "int" -> DeOk(JNum(x.v))
      [] x.t = "str" -> DeOk(JStr(x.v))
      [] x.t = "arr" -> DeValueSeq(x.v, << >>)
      [] x.t = "map" -> DeValueMap(x.v, EmptyMap)

DeValueSeq(q, acc) ==
    IF q = << >> THEN DeOk(JArr(acc))
    ELSE LET d == DeValue(q[1])
         IN IF ~d.ok THEN DeFail ELSE DeValueSeq(Tail(q), Append(acc, d.val))

\* An object key must be a string; a repeated key keeps the later value.
DeValueMap(q, acc) ==
    IF q = << >> THEN DeOk(JObj(acc))
    ELSE IF q[1][1].t # "str" THEN DeFail
    ELSE LET d == DeValue(q[1][2])
         IN IF ~d.ok THEN DeFail
            ELSE DeValueMap(Tail(q), MapInsert(acc, q[1][1].v, d.val))

\* The outcome of deserializing a Metadata: the record, and the key paths
\* that were handed to IgnoredAny, in the order they were met.
StructFail == [ok |-> FALSE, meta |-> SerdeDefault, ignored |-> << >>]

\* Field number i (1..7) set from the MessagePack value x.
SetField(m, i, x) ==
    IF i = 7
    THEN LET d == DeValue(x)
         IN [ok |-> d.ok, meta |-> [m EXCEPT !.extra = d.val]]
    ELSE LET d == DeOpt(x)
         IN [ok |-> d.ok,
             meta |-> CASE i = 1 -> [m EXCEPT !.name = d.val]
                        [] i = 2 -> [m EXCEPT !.auth = d.val]
                        [] i = 3 -> [m EXCEPT !.fmt = d.val]
                        [] i = 4 -> [m EXCEPT !.ed = d.val]
                        [] i = 5 -> [m EXCEPT !.ver = d.val]
                        [] i = 6 -> [m EXCEPT !.desc = d.val]]

\* Index (1..7) of a field name.
FieldIndex(k) == CHOOSE i \in 1..7 : FieldKeys[i] = k

RECURSIVE VisitSeq(_, _, _)
\* visit_seq of the derive: element i is field i; fields past the end of
\* the array keep their #[serde(default)].
VisitSeq(q, i, m) ==
    IF i > Len(q) THEN [ok |-> TRUE, meta |-> m, ignored |-> << >>]
    ELSE LET f == SetField(m, i, q[i])
         IN IF ~f.ok THEN StructFail ELSE VisitSeq(q, i + 1, f.meta)

RECURSIVE VisitMap(_, _, _, _)
\* visit_map of the derive: a known key sets its field (twice is an error),
\* any other key is skipped and reported to the serde_ignored callback.
VisitMap(q, m, seen, ignored) ==
    IF q = << >> THEN [ok |-> TRUE, meta |-> m, ignored |-> ignored]
    ELSE LET k == q[1][1]
             x == q[1][2]
         IN IF k.t # "str" THEN StructFail
            ELSE IF k.v \notin known_fields
            THEN VisitMap(Tail(q), m, seen, Append(ignored, k.v))
            ELSE IF k.v \in seen THEN StructFail
            ELSE LET f == SetField(m, FieldIndex(k.v), x)
                 IN IF ~f.ok THEN StructFail
                    ELSE VisitMap(Tail(q), f.meta, seen \cup {k.v}, ignored)

\* #[derive(Deserialize)] for Metadata from a MessagePack value: an array is
\* read by position (more than 7 elements is a length mismatch), a map by
\* key, nothing else is a struct.
DeMetadata(x) ==
    CASE x.t = "arr" ->
            IF Len(x.v) > 7 THEN StructFail ELSE VisitSeq(x.v, 1, SerdeDefault)
      [] x.t = "map" -> VisitMap(x.v, SerdeDefault, {}, << >>)
      [] OTHER -> StructFail

\* rmp_serde::from_slice::<Metadata> (bytes after the first value are not
\* looked at), with the paths serde_ignored would report.
from_slice_metadata(bytes) ==
    LET p == ParseMP(bytes)
    IN IF ~p.ok THEN StructFail ELSE DeMetadata(p.val)

\* rmp_serde::from_slice::<serde_json::Value>
from_slice_value(bytes) ==
    LET p == ParseMP(bytes)
    IN IF ~p.ok THEN DeFail ELSE DeValue(p.val)

\* Deserialize for Option<String> from a serde_json::Value.
JsonOpt(f, k) ==
    IF k \notin DOMAIN f THEN [ok |-> TRUE, val |-> None]
    ELSE CASE f[k].t = "null" -> [ok |-> TRUE, val |-> None]
           [] f[k].t = "str" -> [ok |-> TRUE, val |-> Some(f[k].v)]
           [] OTHER -> [ok |-> FALSE, val |-> None]

\* serde_json::from_value::<Metadata> of an object with known keys only.
from_value(f) ==
    LET name == JsonOpt(f, KeyName)
        auth == JsonOpt(f, KeyAuth)
        fmt == JsonOpt(f, KeyFmt)
        ed == JsonOpt(f, KeyEd)
        ver == JsonOpt(f, KeyVer)
        desc == JsonOpt(f, KeyDesc)
    IN [ok |-> name.ok /\ auth.ok /\ fmt.ok /\ ed.ok /\ ver.ok /\ desc.ok,
        meta |-> Meta(name.val, auth.val, fmt.val, ed.val, ver.val, desc.val,
                      IF KeyExtra \in DOMAIN f THEN f[KeyExtra] ELSE JNull)]

\* Only the first path reported.
JoinFirst(q) == q[1]

RECURSIVE Join(_)
\* unknown_fields.join(", ")
Join(q) ==
    IF q = << >> THEN << >>
    ELSE IF Len(q) = 1 THEN q[1]
    ELSE BCat(BCat(q[1], B(<< 44, 32 >>)), Join(Tail(q)))

----------------------------------------------------------------------------
(* Results: Ok(Metadata) or a ProjzstError.  size is the usize that         *)
(* InvalidMetadataLength carries, msg the String of UnknownFields.          *)

Ok(m) == [kind |-> "Ok", meta |-> m, size |-> Wide(0), msg |-> << >>]
Err(kind) == [kind |-> kind, meta |-> SerdeDefault, size |-> Wide(0), msg |-> << >>]
InvalidMetadataLength(n) ==
    [kind |-> "InvalidMetadataLength", meta |-> SerdeDefault, size |-> n, msg |-> << >>]
UnknownFields(s) ==
    [kind |-> "UnknownFields", meta |-> SerdeDefault, size |-> Wide(0), msg |-> s]

\* enum IgnoreUnknown
IgnoreUnknown == { "On", "Off", "Export" }

\* The fallback of the Export branch putting an ignored map into extra, as
\* the object branch does for unknown keys.
FallbackMerging(metadata_bytes) ==
    LET d == from_slice_metadata(metadata_bytes)
    IN IF d.ok THEN Ok(merge_unknown_fields(d.meta, JObj(EmptyMap))) ELSE Err("MsgPackDecode")

\* The else branch of Export, for a value that is no object:
\* Ok(rmp_serde::from_slice(&metadata_bytes)?)
ExportFallback(metadata_bytes) ==
    LET d == from_slice_metadata(metadata_bytes)
    IN IF d.ok THEN Ok(d.meta) ELSE Err("MsgPackDecode")

\* The match on ignore_unknown that ends read_metadata_from_file.
Deserialize(metadata_bytes, ignore_unknown) ==
    CASE ignore_unknown = "On" ->
            LET d == from_slice_metadata(metadata_bytes)
            IN IF d.ok THEN Ok(d.meta) ELSE Err("MsgPackDecode")
      [] ignore_unknown = "Off" ->
            LET d == from_slice_metadata(metadata_bytes)
            IN IF ~d.ok THEN Err("MsgPackDecode")
               ELSE IF d.ignored # << >> THEN UnknownFields(Join(d.ignored))
               ELSE Ok(d.meta)
      [] ignore_unknown = "Export" ->
            LET full_value == from_slice_value(metadata_bytes)
            IN IF ~full_value.ok THEN Err("MsgPackDecode")
               ELSE IF is_object(full_value.val)
               THEN LET map == full_value.val.v
                        known_map == [k \in DOMAIN map \cap known_fields |-> map[k]]
                        unknown_map == [k \in DOMAIN map \ known_fields |-> map[k]]
                        d == from_value(known_map)
                    IN IF ~d.ok THEN Err("Json")
                       ELSE IF DOMAIN unknown_map # {}
                       THEN Ok(merge_unknown_fields(d.meta, JObj(unknown_map)))
                       ELSE Ok(d.meta)
               ELSE ExportFallback(metadata_bytes)

----------------------------------------------------------------------------
(* Constants of lib.rs *)

\* 10 * 1024 * 1024
MAX_METADATA_SIZE == 10485760
\* 0x184D2A50
SKIPPABLE_FRAME_MAGIC_MIN == 407710288
\* 0x184D2A5F
SKIPPABLE_FRAME_MAGIC_MAX == 407710303
\* 0x184D2A50
METADATA_FRAME_MAGIC == 407710288

----------------------------------------------------------------------------
(* pack *)

\* The tar.zst stream of a source tree, written by the zstd encoder over the
\* tar builder: a zstd frame, which starts with the magic 0xFD2FB528
\* (little-endian), followed by bytes that stand for the tree as compressed
\* at the given level.
TarZst(source, level) == B(<< 40, 181, 47, 253, source, level >>)

\* The size check with >= for >.
MetadataTooLongInclusive(metadata_len) == metadata_len >= MAX_METADATA_SIZE

\* if metadata_len > MAX_METADATA_SIZE
MetadataTooLong(metadata_len) == metadata_len > MAX_METADATA_SIZE

\* The three write_all calls that write the skippable frame.
WriteFrame(metadata_bytes) ==
    BCat(BCat(u32_to_le_bytes(METADATA_FRAME_MAGIC), u32_to_le_bytes(BLen(metadata_bytes))),
         metadata_bytes)

\* The extra_file argument: None, or a path whose file is missing, does not
\* parse as JSON, or parses to the value val.
NoExtraFile == [state |-> "none", val |-> JNull]
MissingExtraFile == [state |-> "missing", val |-> JNull]
MalformedExtraFile == [state |-> "malformed", val |-> JNull]
ExtraFile(j) == [state |-> "json", val |-> j]

\* A return of pack after the output file was created and before anything
\* was written to it.
ReturnAfterCreate(res) == [res |-> res, written |-> << >>, creates |-> TRUE]

\* A return of pack before the parent directories and the output file are
\* created.
EarlyReturn(res) == [res |-> res, written |-> << >>, creates |-> FALSE]

\* pack: [res, written, creates].  res is the error returned, or Ok with the
\* metadata as it is encoded; creates tells whether create_dir_all and
\* File::create were reached, and written is the content then given to the
\* output file.
PackOutcome(source_exists, source, metadata, extra_file, compression_level) ==
    IF ~source_exists THEN EarlyReturn(Err("SourceNotFound"))
    ELSE IF extra_file.state = "missing" THEN EarlyReturn(Err("ExtraFileNotFound"))
    ELSE IF extra_file.state = "malformed" THEN EarlyReturn(Err("Json"))
    ELSE LET m == IF extra_file.state = "json"
                  THEN [metadata EXCEPT !.extra = extra_file.val]
                  ELSE metadata
             metadata_bytes == to_vec(m)
             metadata_len == BLen(metadata_bytes)
         IN IF MetadataTooLong(metadata_len)
            THEN EarlyReturn(InvalidMetadataLength(Wide(metadata_len)))
            ELSE [res |-> Ok(m),
                  written |-> BCat(WriteFrame(metadata_bytes),
                                  TarZst(source, compression_level)),
                  creates |-> TRUE]

----------------------------------------------------------------------------
(* read_metadata_from_file *)

\* file.read_exact of n bytes at offset pos.  When fewer than n bytes are
\* left the call fails with UnexpectedEof, having consumed what was there.
read_exact(f, pos, n) ==
    IF BLen(f) - pos >= n
    THEN [ok |-> TRUE, data |-> BSlice(f, pos, n), pos |-> pos + n]
    ELSE [ok |-> FALSE, data |-> << >>, pos |-> BLen(f)]

\* (SKIPPABLE_FRAME_MAGIC_MIN..=SKIPPABLE_FRAME_MAGIC_MAX).contains(&magic)
is_skippable(magic) ==
    /\ WideGe(magic, Wide(SKIPPABLE_FRAME_MAGIC_MIN))
    /\ WideGe(Wide(SKIPPABLE_FRAME_MAGIC_MAX), magic)

\* The size check on the block alone, forgetting what was collected.
SizeExceedsFrameOnly(len, frame_size) == WideGt(frame_size, Wide(MAX_METADATA_SIZE))

\* metadata_bytes.len() + frame_size > MAX_METADATA_SIZE
SizeExceeds(len, frame_size) ==
    WideGt(WideAdd(Wide(len), frame_size), Wide(MAX_METADATA_SIZE))

\* The buffer replaced by the block's payload instead of extended.
ReplaceBySlice(metadata_bytes, frame_data) == frame_data

\* metadata_bytes.extend_from_slice(&frame_data)
extend_from_slice(metadata_bytes, frame_data) == BCat(metadata_bytes, frame_data)

\* The tag left where it was read.
StayAfterTag(pos) == pos

\* file.seek(SeekFrom::Current(-4))
SeekBack(pos) == pos - 4

\* One iteration of the framing loop: ctl is "continue" (loop again),
\* "break" (leave the loop) or "return" (return res).
LoopStep(f, pos, metadata_bytes) ==
    LET magic_r == read_exact(f, pos, 4)
        stay == [ctl |-> "break", pos |-> pos, buf |-> metadata_bytes, res |-> Err("none")]
    IN IF ~magic_r.ok
       THEN IF metadata_bytes = << >>
            THEN [stay EXCEPT !.ctl = "return", !.pos = magic_r.pos,
                              !.res = Err("InvalidFileHeader")]
            ELSE [stay EXCEPT !.pos = magic_r.pos]
       ELSE IF is_skippable(u32_from_le_bytes(BFlat(magic_r.data)))
       THEN LET size_r == read_exact(f, magic_r.pos, 4)
            IN IF ~size_r.ok
               THEN [stay EXCEPT !.ctl = "return", !.pos = size_r.pos, !.res = Err("Io")]
               ELSE LET frame_size == u32_from_le_bytes(BFlat(size_r.data))
                    IN IF SizeExceeds(BLen(metadata_bytes), frame_size)
                       THEN [stay EXCEPT !.ctl = "return", !.pos = size_r.pos,
                                         !.res = InvalidMetadataLength(frame_size)]
                       ELSE LET data_r == read_exact(f, size_r.pos, Narrow(frame_size))
                            IN IF ~data_r.ok
                               THEN [stay EXCEPT !.ctl = "return", !.pos = data_r.pos,
                                                 !.res = Err("Io")]
                               ELSE [ctl |-> "continue", pos |-> data_r.pos,
                                     buf |-> extend_from_slice(metadata_bytes, data_r.data),
                                     res |-> Err("none")]
       ELSE [stay EXCEPT !.pos = SeekBack(magic_r.pos)]

\* The match on the policy without the emptiness check before it.
AfterLoopUnchecked(metadata_bytes, ignore_unknown) ==
    Deserialize(metadata_bytes, ignore_unknown)

\* What follows the loop: the emptiness check, then the match on the policy.
AfterLoop(metadata_bytes, ignore_unknown) ==
    IF metadata_bytes = << >> THEN Err("InvalidFileHeader")
    ELSE Deserialize(metadata_bytes, ignore_unknown)

RECURSIVE FramingLoop(_, _, _)
\* The loop run to its end.
FramingLoop(f, pos, metadata_bytes) ==
    LET st == LoopStep(f, pos, metadata_bytes)
    IN IF st.ctl = "continue" THEN FramingLoop(f, st.pos, st.buf) ELSE st

\* read_metadata_from_file on a freshly opened file: [res, pos].
read_metadata_from_file(f, ignore_unknown) ==
    LET st == FramingLoop(f, 0, << >>)
    IN IF st.ctl = "return" THEN [res |-> st.res, pos |-> st.pos]
       ELSE [res |-> AfterLoop(st.buf, ignore_unknown), pos |-> st.pos]

----------------------------------------------------------------------------
(* unpack *)

\* std::path::Path: whether it starts at the root, and its components
\* (names, "." and "..").
Path(abs, comps) == [abs |-> abs, comps |-> comps]

\* Option<&Path>
NoPath == [some |-> FALSE, v |-> Path(FALSE, << >>)]
SomePath(p) == [some |-> TRUE, v |-> p]

\* Path::parent: the path without its last component; None for the root and
\* for the empty path.
parent(p) ==
    IF p.comps = << >> THEN NoPath
    ELSE SomePath(Path(p.abs, SubSeq(p.comps, 1, Len(p.comps) - 1)))

\* Option::unwrap_or
unwrap_or(o, default) == IF o.some THEN o.v ELSE default

\* Path::join with a relative name
join(p, name) == Path(p.abs, Append(p.comps, name))

\* output_dir.parent().unwrap_or(Path::new(".")).join("metadata.json")
metadata_json_path(output_dir) ==
    join(unwrap_or(parent(output_dir), Path(FALSE, << "." >>)), "metadata.json")

\* The working directory of the process, as a location from the root.
Cwd == << "work" >>

RECURSIVE Walk(_, _)
\* The location the system reaches from location at along comps.
Walk(at, comps) ==
    IF comps = << >> THEN at
    ELSE LET c == Head(comps)
             to == IF c = "." THEN at
                   ELSE IF c = ".."
                   THEN (IF at = << >> THEN at ELSE SubSeq(at, 1, Len(at) - 1))
                   ELSE Append(at, c)
         IN Walk(to, Tail(comps))

\* The location a path names.
Resolve(p) == Walk(IF p.abs THEN << >> ELSE Cwd, p.comps)

\* Content of a file: bytes, or JSON text standing for a value.
Bytes(b) == [kind |-> "bytes", v |-> b]
JsonText(j) == [kind |-> "json", v |-> j]

\* The files and directories of a source tree, by relative location:
\* tree 0 is empty, tree 1 is the one create_test_directory builds.
TreeOf(source) ==
    IF source = 0 THEN [dirs |-> {}, files |-> {}]
    ELSE [dirs |-> { << "subdir" >> },
          files |->
            { [at |-> << "readme.txt" >>,
               content |-> Bytes(B(<< 72, 101, 108, 108, 111, 44, 32, 112, 114, 111, 106,
                                      122, 115, 116, 33 >>))],
              [at |-> << "data.bin" >>, content |-> Bytes(B(<< 0, 1, 2, 3, 4 >>))],
              [at |-> << "subdir", "nested.txt" >>,
               content |-> Bytes(B(<< 78, 101, 115, 116, 101, 100, 32, 102, 105, 108, 101,
                                      32, 99, 111, 110, 116, 101, 110, 116 >>))] }]

\* The first four bytes of a zstd frame.
ZstdMagic == B(<< 40, 181, 47, 253 >>)

\* The zstd decoder and the tar reader on the bytes that follow the read
\* position: the stream the encoder wrote for a tree gives that tree back at
\* whatever level it was compressed; other bytes are no stream of a tree.
\* For no bytes at all the decoder either reports an incomplete frame or
\* ends the stream, and the tar reader then finds no entry.
Untar(stream) ==
    IF stream = << >>
    THEN { [ok |-> TRUE, tree |-> TreeOf(0)], [ok |-> FALSE, tree |-> TreeOf(0)] }
    ELSE IF BLen(stream) = 6 /\ BTake(stream, 4) = ZstdMagic
    THEN { [ok |-> TRUE, tree |-> TreeOf(BAt(stream, 5))] }
    ELSE { [ok |-> FALSE, tree |-> TreeOf(0)] }

\* The locations between the root and d, d included.
Ancestors(d) == { SubSeq(d, 1, k) : k \in 0..Len(d) }

\* fs::create_dir_all
create_dir_all(disc, d) == [disc EXCEPT !.dirs = @ \cup Ancestors(d)]

\* tar::Archive::unpack into the directory at d
tar_unpack(disc, d, tree) ==
    LET new == { d \o e.at : e \in tree.files }
    IN [dirs |-> disc.dirs \cup { d \o q : q \in tree.dirs },
        files |-> [q \in DOMAIN disc.files \cup new |->
                      IF q \in new
                      THEN (CHOOSE e \in tree.files : d \o e.at = q).content
                      ELSE disc.files[q]]]

\* fs::write
fs_write(disc, at, content) == [disc EXCEPT !.files = MapInsert(@, at, content)]

\* What Serialize writes for an Option<String>.
OptJson(o) == IF o.some THEN JStr(o.v) ELSE JNull

\* serde_json::to_string_pretty(&metadata): the text of an object with the
\* seven fields.
to_string_pretty(m) ==
    JsonText(JObj((KeyName :> OptJson(m.name)) @@ (KeyAuth :> OptJson(m.auth))
                  @@ (KeyFmt :> OptJson(m.fmt)) @@ (KeyEd :> OptJson(m.ed))
                  @@ (KeyVer :> OptJson(m.ver)) @@ (KeyDesc :> OptJson(m.desc))
                  @@ (KeyExtra :> m.extra)))

\* unpack from the return of read_metadata_from_file on: [res, disc].  x is
\* what the decoder and the tar reader make of the rest of the file.
UnpackOutcome(header, output_dir, x, disc) ==
    IF header.kind # "Ok" THEN [res |-> header, disc |-> disc]
    ELSE LET d == Resolve(output_dir)
             made == create_dir_all(disc, d)
         IN IF ~x.ok THEN [res |-> Err("Io"), disc |-> made]
            ELSE [res |-> header,
                  disc |-> fs_write(tar_unpack(made, d, x.tree),
                                    Resolve(metadata_json_path(output_dir)),
                                    to_string_pretty(header.meta))]

----------------------------------------------------------------------------
(* Inputs *)

\* Largest number of header blocks in a file written block by block.
MaxFrames == 2

StrX == B(<< 120 >>)
\* U+00E9 in UTF-8
StrE == B(<< 195, 169 >>)
KeyK == B(<< 107 >>)
KeyA == B(<< 97 >>)
KeyBo == B(<< 98, 111 >>)
KeyZz == B(<< 122, 122 >>)

\* Values given for an identity field.
Presence == { None, Some(StrX) }
Names == { None, Some(StrX), Some(StrE), Some(<< >>) }

\* Values given for the extra field (with_extra takes any value).
Extras ==
    { JObj(EmptyMap),
      JObj(KeyK :> JNum(1)),
      JObj(KeyIgnored :> JStr(StrX)),
      JObj((KeyA :> JObj(KeyK :> JNull)) @@ (KeyBo :> JArr(<< JNum(1), JStr(StrE), JBool(TRUE) >>))),
      JStr(StrX) }

\* A record whose encoding is n bytes long, n >= 12: a name of n - 12 bytes
\* (str32 for the sizes used here), five absent fields and an empty extra.
MetaOfSize(n) == MetadataNew(Some(Rep(97, n - 12)), None, None, None, None, None)

\* The metadata given to pack.
Metas ==
    { MetadataNew(n, a, f, e, v, d) :
        n \in Presence, a \in Presence, f \in Presence, e \in Presence,
        v \in Presence, d \in Presence }
    \cup { with_extra(MetadataNew(n, None, None, None, v, None), x) :
             n \in Names, v \in Names, x \in Extras }
    \cup { MetaOfSize(MAX_METADATA_SIZE - 1), MetaOfSize(MAX_METADATA_SIZE),
           MetaOfSize(MAX_METADATA_SIZE + 1) }

\* Source trees: 0 is the empty directory, 1 the tree of the tests.
Sources == { 0, 1 }

\* Compression levels given to pack.
Levels == { 3, 22 }

ExtraFiles ==
    { NoExtraFile, MissingExtraFile, MalformedExtraFile, ExtraFile(JObj(KeyK :> JNum(1))) }

\* MessagePack values whose encodings are written into header blocks by
\* other writers: maps with known and unknown keys, and values that are no
\* Metadata.
Pair(k, x) == << MStr(k), x >>
Trees ==
    { MMap(<< Pair(KeyName, MStr(StrX)) >>),
      MMap(<< Pair(KeyName, MStr(StrX)), Pair(KeyBo, MInt(1)) >>),
      MMap(<< Pair(KeyZz, MNil), Pair(KeyName, MStr(StrE)), Pair(KeyBo, MStr(StrX)) >>),
      MMap(<< Pair(KeyExtra, MMap(<< Pair(KeyIgnored,
                                         MMap(<< Pair(KeyBo, MStr(StrX)), Pair(KeyK, MInt(1)) >>)) >>)),
              Pair(KeyBo, MInt(1)) >>),
      MMap(<< Pair(KeyExtra, MStr(StrX)), Pair(KeyBo, MInt(1)) >>),
      MMap(<< Pair(KeyExtra, MMap(<< Pair(KeyIgnored, MStr(StrX)), Pair(KeyA, MInt(2)) >>)),
              Pair(KeyBo, MArr(<< MInt(1) >>)) >>),
      MMap(<< Pair(KeyVer, MStr(StrX)), Pair(KeyExtra, MMap(<< Pair(KeyK, MInt(1)) >>)) >>),
      MMap(<< Pair(KeyName, MInt(1)), Pair(KeyBo, MInt(1)) >>),
      SerMetadata(MetadataNew(Some(StrX), None, None, None, None, None)),
      MInt(5) }

\* Output directories given to unpack: the one of the tests, a relative
\* name, and the working directory itself.
Dirs ==
    { Path(TRUE, << "tmp", "subdir", "extracted" >>),
      Path(FALSE, << "out" >>),
      Path(FALSE, << "." >>) }

\* The directories there are before unpack is called, and no file.
InitialFs ==
    [dirs |-> { << >>, Cwd, << "tmp" >> }, files |-> [q \in {} |-> Bytes(<< >>)]]

\* Tags written by other writers.
Tags == { SKIPPABLE_FRAME_MAGIC_MIN, SKIPPABLE_FRAME_MAGIC_MAX }

\* A header block as bytes: tag, declared size, and the payload bytes that
\* are actually there.
FrameBytes(fr) == BCat(BCat(u32_to_le_bytes(fr.tag), wide_to_le_bytes(fr.size)), fr.data)

\* A well-formed header block carrying data.
Frame(tag, data) == [tag |-> tag, size |-> Wide(BLen(data)), data |-> data]

RECURSIVE FramesBytes(_)
FramesBytes(q) == IF q = << >> THEN << >> ELSE BCat(FrameBytes(q[1]), FramesBytes(Tail(q)))

SmallBlob == EncMP(MMap(<< Pair(KeyName, MStr(StrX)) >>))

\* What follows the header blocks: nothing, a zstd stream, or a few bytes.
SplitTrails == { << >>, TarZst(1, 3), B(<< 1, 2 >>) }

\* Header blocks written one by one, well-formed or not.
RawFrames ==
    { Frame(SKIPPABLE_FRAME_MAGIC_MIN, << >>),
      Frame(SKIPPABLE_FRAME_MAGIC_MAX, SmallBlob),
      Frame(SKIPPABLE_FRAME_MAGIC_MIN, B(<< 0 >>)),
      Frame(SKIPPABLE_FRAME_MAGIC_MIN, B(<< 0, 0 >>)),
      Frame(SKIPPABLE_FRAME_MAGIC_MIN,
            BCat(SmallBlob, Rep(0, MAX_METADATA_SIZE - 1 - BLen(SmallBlob)))),
      [tag |-> SKIPPABLE_FRAME_MAGIC_MIN, size |-> Wide(MAX_METADATA_SIZE + 1), data |-> << >>],
      [tag |-> SKIPPABLE_FRAME_MAGIC_MIN, size |-> [hi |-> 65535, lo |-> 65535], data |-> << >>],
      [tag |-> SKIPPABLE_FRAME_MAGIC_MIN, size |-> Wide(BLen(SmallBlob)),
       data |-> BTake(SmallBlob, 5)] }

\* A tag of the reserved range with nothing after it, and one followed by
\* half a length field.
TagOnly == u32_to_le_bytes(SKIPPABLE_FRAME_MAGIC_MIN)
TagHalfLength == BCat(u32_to_le_bytes(SKIPPABLE_FRAME_MAGIC_MAX), B(<< 8, 0 >>))

RawTrails ==
    { << >>, TarZst(0, 3), B(<< 7 >>), B(<< 1, 2, 3 >>),
      u32_to_le_bytes(SKIPPABLE_FRAME_MAGIC_MIN - 1),
      BCat(u32_to_le_bytes(SKIPPABLE_FRAME_MAGIC_MAX + 1), B(<< 9 >>)),
      TagOnly, TagHalfLength }

----------------------------------------------------------------------------
(* State *)

VARIABLES
    file,            \* content of the .pjz file
    created,         \* whether the .pjz file exists
    parent_exists,   \* whether the directory of the .pjz file exists
    origin,          \* who wrote the file, and from what
    pack_result,     \* what pack returned
    pc,              \* "start", "failed", "written", "loop", "decode", "done", "unpacked"
    ignore_unknown,  \* the policy given to read_metadata
    pos,             \* read position of the open file
    metadata_bytes,  \* the bytes collected from the header blocks
    result,          \* what read_metadata_from_file returned
    rec,             \* a Metadata value in the hands of a caller of the library
    before,          \* that value before the last operation on it
    op,              \* the last operation on it
    arg,             \* the JSON value given to that operation
    ops,             \* how many operations it went through
    output_dir,      \* the directory given to unpack
    unpack_result,   \* what unpack returned
    fs               \* the directories and files around the output directory

\* The variables of the record API.
api == << rec, before, op, arg, ops >>

vars == << file, created, parent_exists, origin, pack_result, pc, ignore_unknown, pos,
           metadata_bytes, result, rec, before, op, arg, ops, output_dir,
           unpack_result, fs >>

\* The variables of unpack past the header.
out == << output_dir, unpack_result, fs >>

NoResult == Err("none")

\* What an output path may hold before pack is called: nothing, not even
\* its directory; its directory; or a file of an earlier run.
OldFile == B(<< 111, 108, 100 >>)
Destinations ==
    { [parent |-> FALSE, exists |-> FALSE, content |-> << >>],
      [parent |-> TRUE, exists |-> FALSE, content |-> << >>],
      [parent |-> TRUE, exists |-> TRUE, content |-> OldFile] }

Init ==
    /\ \E d \in Destinations :
          /\ file = d.content
          /\ created = d.exists
          /\ parent_exists = d.parent
    /\ origin = [how |-> "none"]
    /\ pack_result = NoResult
    /\ pc = "start"
    /\ ignore_unknown = "On"
    /\ pos = 0
    /\ metadata_bytes = << >>
    /\ result = NoResult
    /\ rec = MetadataDefault
    /\ before = MetadataDefault
    /\ op = "default"
    /\ arg = JNull
    /\ ops = 0
    /\ output_dir = Path(FALSE, << >>)
    /\ unpack_result = NoResult
    /\ fs = InitialFs

\* pack(source_dir, output_file, metadata, extra_file, level)
Pack(source_exists, source, metadata, extra_file, compression_level) ==
    /\ pc = "start"
    /\ LET o == PackOutcome(source_exists, source, metadata, extra_file, compression_level)
       IN /\ pack_result' = o.res
          /\ IF o.creates
             THEN /\ file' = o.written
                  /\ created' = TRUE
                  /\ parent_exists' = TRUE
             ELSE UNCHANGED << file, created, parent_exists >>
          /\ pc' = IF o.res.kind = "Ok" THEN "written" ELSE "failed"
    /\ origin' = [how |-> "pack", source_exists |-> source_exists, source |-> source,
                  metadata |-> metadata, extra_file |-> extra_file,
                  level |-> compression_level]
    /\ UNCHANGED << ignore_unknown, pos, metadata_bytes, result >>
    /\ UNCHANGED api
    /\ UNCHANGED out

\* Another writer stores the encoding of tree in one header block (cut = 0)
\* or splits it after cut bytes over two, followed by trail.
WriteSplit(tree, cut, tag1, tag2, trail) ==
    /\ pc = "start"
    /\ LET blob == EncMP(tree)
           frames == IF cut = 0 THEN << Frame(tag1, blob) >>
                     ELSE << Frame(tag1, BTake(blob, cut)), Frame(tag2, BDrop(blob, cut)) >>
       IN /\ file' = BCat(FramesBytes(frames), trail)
          /\ origin' = [how |-> "split", tree |-> tree, cut |-> cut, tag1 |-> tag1,
                        tag2 |-> tag2, trail |-> trail, frames |-> frames]
    /\ created' = TRUE
    /\ parent_exists' = TRUE
    /\ pc' = "written"
    /\ UNCHANGED << pack_result, ignore_unknown, pos, metadata_bytes, result >>
    /\ UNCHANGED api
    /\ UNCHANGED out

\* Another writer stores the header blocks frames, followed by trail.
WriteRaw(frames, trail) ==
    /\ pc = "start"
    /\ file' = BCat(FramesBytes(frames), trail)
    /\ origin' = [how |-> "raw", frames |-> frames, trail |-> trail]
    /\ created' = TRUE
    /\ parent_exists' = TRUE
    /\ pc' = "written"
    /\ UNCHANGED << pack_result, ignore_unknown, pos, metadata_bytes, result >>
    /\ UNCHANGED api
    /\ UNCHANGED out

\* read_metadata: File::open, then read_metadata_from_file is entered.
Open(policy) ==
    /\ pc = "written"
    /\ ignore_unknown' = policy
    /\ pos' = 0
    /\ metadata_bytes' = << >>
    /\ pc' = "loop"
    /\ UNCHANGED << file, created, parent_exists, origin, pack_result, result >>
    /\ UNCHANGED api
    /\ UNCHANGED out

\* One iteration of the loop of read_metadata_from_file.
ReadFrame ==
    /\ pc = "loop"
    /\ LET st == LoopStep(file, pos, metadata_bytes)
       IN /\ pos' = st.pos
          /\ metadata_bytes' = st.buf
          /\ pc' = CASE st.ctl = "continue" -> "loop"
                     [] st.ctl = "break" -> "decode"
                     [] st.ctl = "return" -> "done"
          /\ result' = IF st.ctl = "return" THEN st.res ELSE result
    /\ UNCHANGED << file, created, parent_exists, origin, pack_result, ignore_unknown >>
    /\ UNCHANGED api
    /\ UNCHANGED out

\* The rest of read_metadata_from_file, after the loop.
Decode ==
    /\ pc = "decode"
    /\ result' = AfterLoop(metadata_bytes, ignore_unknown)
    /\ pc' = "done"
    /\ UNCHANGED << file, created, parent_exists, origin, pack_result, ignore_unknown, pos, metadata_bytes >>
    /\ UNCHANGED api
    /\ UNCHANGED out

\* unpack, from the return of read_metadata_from_file on: the error is
\* handed on, or the rest of the file is decoded and extracted into
\* output_dir and metadata.json is written.
Extract(dir, x) ==
    /\ pc = "done"
    /\ LET o == UnpackOutcome(result, dir, x, fs)
       IN /\ unpack_result' = o.res
          /\ fs' = o.disc
    /\ output_dir' = dir
    /\ pc' = "unpacked"
    /\ UNCHANGED << file, created, parent_exists, origin, pack_result, ignore_unknown, pos,
                    metadata_bytes, result >>
    /\ UNCHANGED api

\* A call of pack, with any arguments.
PackCall ==
    /\ pc = "start"
    /\ \E source_exists \in BOOLEAN, metadata \in Metas, extra_file \in ExtraFiles :
          \E source \in IF source_exists THEN Sources ELSE { 0 },
             compression_level \in IF source_exists THEN Levels ELSE { 3 } :
             Pack(source_exists, source, metadata, extra_file, compression_level)

SplitWriter ==
    /\ pc = "start"
    /\ \E tree \in Trees, tag1 \in Tags, trail \in SplitTrails :
          \E cut \in 0..(BLen(EncMP(tree)) - 1) :
             \E tag2 \in IF cut = 0 THEN { tag1 } ELSE Tags :
                WriteSplit(tree, cut, tag1, tag2, trail)

RawWriter ==
    /\ pc = "start"
    /\ \E n \in 0..MaxFrames, trail \in RawTrails :
          \E frames \in [1..n -> RawFrames] : WriteRaw(frames, trail)

OpenCall == \E policy \in IgnoreUnknown : Open(policy)

ExtractCall ==
    /\ pc = "done"
    /\ \E dir \in Dirs, x \in Untar(BDrop(file, pos)) : Extract(dir, x)

Next ==
    \/ PackCall
    \/ SplitWriter
    \/ RawWriter
    \/ OpenCall
    \/ ReadFrame
    \/ Decode
    \/ ExtractCall

Spec == Init /\ [][Next]_vars

----------------------------------------------------------------------------
(* The record API: a Metadata value that a caller of the library builds,    *)
(* changes, hands to pack and gets back from read_metadata.                 *)

\* Largest number of operations one record goes through.
MaxOps == 2

\* The variables of the file, which the record API leaves alone.
disk == << file, created, parent_exists, origin, pack_result, pc, ignore_unknown, pos,
           metadata_bytes, result >>

\* Values given to with_extra and found in side-files.
ExtraValues ==
    Extras \cup
    { JNull,
      JArr(<< JNum(1) >>),
      JObj((KeyIgnored :> JObj((KeyBo :> JStr(StrX)) @@ (KeyZz :> JNull))) @@ (KeyA :> JNum(2))) }

\* Values given to merge_unknown_fields.
UnknownValues ==
    { JObj(KeyBo :> JNum(1)),
      JObj((KeyBo :> JNum(1)) @@ (KeyK :> JStr(StrE))),
      JObj(EmptyMap),
      JStr(StrX) }

\* One more operation on the record: its result, and what is remembered.
Apply(name, value, r) ==
    /\ rec' = r
    /\ before' = rec
    /\ op' = name
    /\ arg' = value
    /\ ops' = ops + 1
    /\ UNCHANGED disk
    /\ UNCHANGED out

\* Metadata::new(name, None, None, None, ver, None)
NewCall ==
    /\ ops < MaxOps
    /\ \E name \in Names, ver \in Presence :
          Apply("new", JNull, MetadataNew(name, None, None, None, ver, None))

\* Metadata::default()
DefaultCall ==
    /\ ops < MaxOps
    /\ Apply("default", JNull, MetadataDefault)

\* rec.with_extra(extra)
WithExtraCall ==
    /\ ops < MaxOps
    /\ \E extra \in ExtraValues : Apply("with_extra", extra, with_extra(rec, extra))

\* rec.merge_unknown_fields(unknown)
MergeCall ==
    /\ ops < MaxOps
    /\ \E unknown \in UnknownValues :
          Apply("merge", unknown, merge_unknown_fields(rec, unknown))

\* pack(source_dir, output_file, rec, Some(extra_file), level): the record
\* pack encodes once the side-file is loaded.
SideFileCall ==
    /\ ops < MaxOps
    /\ \E j \in ExtraValues :
          LET o == PackOutcome(TRUE, 0, rec, ExtraFile(j), 3)
          IN /\ o.res.kind = "Ok"
             /\ Apply("side_file", j, o.res.meta)

\* read_metadata of a file that holds the encoding of tree, or of rec, in
\* one header block.
DecodeCall ==
    /\ ops < MaxOps
    /\ \E bytes \in { EncMP(tree) : tree \in Trees } \cup { to_vec(rec) },
          policy \in IgnoreUnknown :
          LET r == read_metadata_from_file(FrameBytes(Frame(METADATA_FRAME_MAGIC, bytes)),
                                           policy).res
          IN /\ r.kind = "Ok"
             /\ Apply("decode", JStr(policy), r.meta)

MetaNext ==
    \/ NewCall
    \/ DefaultCall
    \/ WithExtraCall
    \/ MergeCall
    \/ SideFileCall
    \/ DecodeCall

MetaSpec == Init /\ [][MetaNext]_vars

----------------------------------------------------------------------------
(* Properties *)

\* The record pack encodes: the metadata given, its extra replaced by the
\* side-file's value when a side-file is given.
PackedMetadata ==
    IF origin.extra_file.state = "json"
    THEN [origin.metadata EXCEPT !.extra = origin.extra_file.val]
    ELSE origin.metadata

\* The header blocks a writer other than pack wrote, and what it wrote after.
WrittenFrames == origin.frames
ByOtherWriter == origin.how \in { "split", "raw" }

\* A block whose declared size is the size of the payload that is there.
WellFormed(fr) == fr.size = Wide(BLen(fr.data))

RECURSIVE SumSizes(_, _)
\* The declared sizes of the first k blocks, added up.
SumSizes(q, k) == IF k = 0 THEN Wide(0) ELSE WideAdd(SumSizes(q, k - 1), q[k].size)

RECURSIVE ConcatData(_, _)
\* The payloads of the first k blocks, in file order.
ConcatData(q, k) == IF k = 0 THEN << >> ELSE BCat(ConcatData(q, k - 1), q[k].data)

\* Block k takes the collected total beyond 10 MiB.
Over(q, k) == WideGt(SumSizes(q, k), Wide(10 * 1024 * 1024))

\* Block k is the first to do so, and the blocks before it are all there.
FirstOver(q, k) == Over(q, k) /\ \A j \in 1..(k - 1) : WellFormed(q[j]) /\ ~Over(q, j)

\* C1: Metadata round-trip.  When pack has written a file for a record and
\* read_metadata has returned under the On or the Off policy, it returned Ok
\* with a record equal to the one packed, in all seven fields.
C1_RoundTrip ==
    (pc = "done" /\ origin.how = "pack" /\ ignore_unknown \in { "On", "Off" })
        => result = Ok(PackedMetadata)

C1_Witness ==
    /\ pc = "done" /\ origin.how = "pack" /\ ignore_unknown = "Off"
    /\ origin.extra_file.state = "none"
    /\ origin.metadata.name = Some(StrE) /\ origin.metadata.ver = None
    /\ origin.metadata.extra.t = "obj" /\ KeyBo \in DOMAIN origin.metadata.extra.v
    /\ result.kind = "Ok"

\* C2: Multi-block framing equivalence.  When a blob was split at any point
\* over two header blocks (any two tags of the sample), read_metadata returns
\* what it returns for the file that holds the blob in one block followed by
\* the same trailing bytes, under every policy.
C2_SplitEquivalence ==
    (pc = "done" /\ origin.how = "split" /\ origin.cut > 0)
        => LET single == BCat(FrameBytes(Frame(origin.tag1, EncMP(origin.tree))),
                              origin.trail)
           IN result = read_metadata_from_file(single, ignore_unknown).res

C2_Witness ==
    /\ pc = "done" /\ origin.how = "split" /\ origin.cut = 3
    /\ origin.tag1 # origin.tag2
    /\ origin.trail # << >>
    /\ ignore_unknown = "Export"
    /\ result.kind = "Ok" /\ result.meta.name = Some(StrE)

\* C3 (as claimed): Read-position guarantee.  Whenever read_metadata_from_file
\* has returned Ok, the read position is the offset just past the last header
\* block, also when fewer than 4 bytes follow it.
C3_PositionAfterHeader ==
    (pc = "done" /\ result.kind = "Ok" /\ origin.how \in { "pack", "split" })
        => pos = IF origin.how = "pack" THEN 8 + BLen(to_vec(PackedMetadata))
                 ELSE BLen(FramesBytes(WrittenFrames))

\* The file has no header block at its start: it is shorter than 4 bytes, or
\* its first 4 bytes are not 0x5?, 0x2A, 0x4D, 0x18.
NoHeaderAtStart ==
    \/ BLen(file) < 4
    \/ ~(/\ BAt(file, 1) \in 80..95
         /\ BAt(file, 2) = 42
         /\ BAt(file, 3) = 77
         /\ BAt(file, 4) = 24)

\* C4: Header detection.  On a file with no header block at its start,
\* read_metadata_from_file returns InvalidFileHeader, under every policy.
C4_HeaderDetection ==
    (pc = "done" /\ NoHeaderAtStart) => result = Err("InvalidFileHeader")

C4_Witness ==
    /\ pc = "done" /\ NoHeaderAtStart /\ BLen(file) > 4
    /\ ignore_unknown = "Export"
    /\ result.kind = "InvalidFileHeader"

\* The file ends inside a header block: after a tag of the reserved range
\* and before the end of the length field, or inside the declared payload.
EndsInsideBlock ==
    /\ origin.how = "raw"
    /\ LET q == WrittenFrames
           n == Len(q)
       IN \/ /\ \A j \in 1..n : WellFormed(q[j]) /\ ~Over(q, j)
             /\ origin.trail \in { TagOnly, TagHalfLength }
          \/ /\ n > 0
             /\ \A j \in 1..(n - 1) : WellFormed(q[j])
             /\ ~Over(q, n)
             /\ BLen(q[n].data) < Narrow(q[n].size)
             /\ origin.trail = << >>

\* C5 (as claimed): Truncated frame.  On a file that ends inside a header
\* block, read_metadata_from_file fails with InvalidFileHeader.
C5_TruncatedIsInvalidHeader ==
    (pc = "done" /\ EndsInsideBlock) => result.kind = "InvalidFileHeader"

\* C6: Read-side size bound.  The collected buffer never exceeds 10 MiB; the
\* first block that would take it beyond fails the read with
\* InvalidMetadataLength before its payload is read (the position is just
\* past its length field, the buffer holds the blocks before it); and no
\* read fails that way otherwise, so a total of exactly 10 MiB is accepted.
C6_ReadSizeBound ==
    /\ BLen(metadata_bytes) <= 10 * 1024 * 1024
    /\ (pc = "done" /\ ByOtherWriter)
          => \A k \in 1..Len(WrittenFrames) :
                FirstOver(WrittenFrames, k)
                   => /\ result = InvalidMetadataLength(WrittenFrames[k].size)
                      /\ pos = BLen(FramesBytes(SubSeq(WrittenFrames, 1, k - 1))) + 8
                      /\ metadata_bytes = ConcatData(WrittenFrames, k - 1)
    /\ (pc = "done" /\ result.kind = "InvalidMetadataLength")
          => /\ ByOtherWriter
             /\ \E k \in 1..Len(WrittenFrames) : FirstOver(WrittenFrames, k)
    /\ (pc \in { "decode", "done" } /\ ByOtherWriter
        /\ \A j \in 1..Len(WrittenFrames) :
              WellFormed(WrittenFrames[j]) /\ ~Over(WrittenFrames, j)
        /\ origin.trail \notin { TagOnly, TagHalfLength })
          => metadata_bytes = ConcatData(WrittenFrames, Len(WrittenFrames))

C6_Witness ==
    /\ pc = "done" /\ origin.how = "raw"
    /\ BLen(metadata_bytes) = 10 * 1024 * 1024 - 1
    /\ result = InvalidMetadataLength(Wide(2))

\* C7: Encode-side size check.  Given an existing source and a usable
\* side-file (or none), pack fails with InvalidMetadataLength carrying the
\* encoded size when that size is 0 or more than 10 MiB, and otherwise
\* succeeds and writes a length field equal to the encoded size, followed by
\* the encoding.
C7_EncodeSizeCheck ==
    (origin.how = "pack" /\ origin.source_exists
     /\ origin.extra_file.state \in { "none", "json" })
        => LET n == BLen(to_vec(PackedMetadata))
           IN /\ \A k \in { 10 * 1024 * 1024 - 1, 10 * 1024 * 1024, 10 * 1024 * 1024 + 1 } :
                    origin.metadata = MetaOfSize(k) /\ origin.extra_file.state = "none"
                       => n = k
              /\ IF n = 0 \/ n > 10 * 1024 * 1024
                 THEN pack_result = InvalidMetadataLength(Wide(n)) /\ pc = "failed"
                 ELSE /\ pack_result.kind = "Ok"
                      /\ created
                      /\ u32_from_le_bytes(BFlat(BSlice(file, 4, 4))) = Wide(n)
                      /\ BSlice(file, 8, n) = to_vec(PackedMetadata)

C7_Witness ==
    /\ origin.how = "pack"
    /\ pack_result = InvalidMetadataLength(Wide(10 * 1024 * 1024 + 1))
    /\ ~created

\* C8 (as claimed): Zero size on read.  On a file whose first header block
\* declares a length of 0, read_metadata_from_file fails with
\* InvalidMetadataLength(0), whatever follows the block.
C8_ZeroLengthRejected ==
    (pc = "done" /\ origin.how = "raw" /\ Len(WrittenFrames) > 0
     /\ WrittenFrames[1].size = Wide(0))
        => result = InvalidMetadataLength(Wide(0))

\* The declared field names.
DeclaredFields == { KeyName, KeyAuth, KeyFmt, KeyEd, KeyVer, KeyDesc, KeyExtra }
IdentityFields == DeclaredFields \ { KeyExtra }

\* The blob in the header blocks encodes a map.
BlobIsMap == origin.how = "split" /\ origin.tree.t = "map"

\* The keys of the encoded map that are no declared field, in wire order.
RECURSIVE UnknownIn(_)
UnknownIn(q) ==
    IF q = << >> THEN << >>
    ELSE IF q[1][1].v \in DeclaredFields THEN UnknownIn(Tail(q))
    ELSE << q[1][1].v >> \o UnknownIn(Tail(q))

UnknownKeys == IF BlobIsMap THEN UnknownIn(origin.tree.v) ELSE << >>

\* The value the encoded map gives key k.
HasKey(k) == \E i \in 1..Len(origin.tree.v) : origin.tree.v[i][1].v = k
ValueAt(k) ==
    origin.tree.v[CHOOSE i \in 1..Len(origin.tree.v) : origin.tree.v[i][1].v = k][2]

\* Every identity field the map carries is a string or nil.
WellTyped ==
    \A k \in IdentityFields : HasKey(k) => ValueAt(k).t \in { "nil", "str" }

RECURSIVE PathList(_)
\* Key paths separated by ", ".
PathList(q) ==
    IF Len(q) = 1 THEN q[1] ELSE BCat(BCat(q[1], B(<< 44, 32 >>)), PathList(Tail(q)))

\* C9: Strict-reject policy.  Under Off, a blob with keys that are no
\* declared field never yields a record; when its declared fields decode, the
\* read fails with UnknownFields listing every such key in the order met;
\* and a blob without such keys gives what the On policy gives.
C9_StrictReject ==
    (pc = "done" /\ ignore_unknown = "Off" /\ origin.how \in { "split", "pack" })
        => /\ UnknownKeys # << >> => result.kind \notin { "Ok", "none" }
           /\ (UnknownKeys # << >> /\ WellTyped)
                 => result = UnknownFields(PathList(UnknownKeys))
           /\ (UnknownKeys # << >> /\ ~WellTyped) => result = Err("MsgPackDecode")
           /\ UnknownKeys = << >> => result = read_metadata_from_file(file, "On").res

C9_Witness ==
    /\ pc = "done" /\ ignore_unknown = "Off" /\ BlobIsMap
    /\ UnknownKeys = << KeyZz, KeyBo >>
    /\ origin.cut > 0
    /\ result.kind = "UnknownFields"

\* The identity field k as the encoded map gives it.
FieldAt(k) == IF HasKey(k) /\ ValueAt(k).t = "str" THEN Some(ValueAt(k).v) ELSE None

\* The extra value the encoded map gives (Null when it has no extra key).
ExtraAt == IF HasKey(KeyExtra) THEN DeValue(ValueAt(KeyExtra)).val ELSE JNull

ExampleTree == MMap(<< Pair(KeyName, MStr(StrX)), Pair(KeyBo, MInt(1)) >>)

\* C10: Export-to-extension policy.  Under Export, a blob encoding a map
\* with declared keys K and other keys U yields a record whose identity
\* fields are those of K; when U is empty its extra is the one of K, with no
\* "ignored" key added; otherwise extra.ignored[k] is the encoded value for
\* every k in U, and the other keys of an object-valued extra are kept.
C10_ExportToExtension ==
    (pc = "done" /\ ignore_unknown = "Export" /\ BlobIsMap /\ WellTyped)
        => /\ result.kind = "Ok"
           /\ result.meta.name = FieldAt(KeyName)
           /\ result.meta.auth = FieldAt(KeyAuth)
           /\ result.meta.fmt = FieldAt(KeyFmt)
           /\ result.meta.ed = FieldAt(KeyEd)
           /\ result.meta.ver = FieldAt(KeyVer)
           /\ result.meta.desc = FieldAt(KeyDesc)
           /\ IF UnknownKeys = << >>
              THEN result.meta.extra = ExtraAt
              ELSE /\ is_object(result.meta.extra)
                   /\ KeyIgnored \in DOMAIN result.meta.extra.v
                   /\ is_object(result.meta.extra.v[KeyIgnored])
                   /\ \A i \in 1..Len(UnknownKeys) :
                         LET k == UnknownKeys[i]
                         IN /\ k \in DOMAIN result.meta.extra.v[KeyIgnored].v
                            /\ result.meta.extra.v[KeyIgnored].v[k] = DeValue(ValueAt(k)).val
                   /\ is_object(ExtraAt)
                         => \A k \in DOMAIN ExtraAt.v \ { KeyIgnored } :
                               /\ k \in DOMAIN result.meta.extra.v
                               /\ result.meta.extra.v[k] = ExtraAt.v[k]
           /\ origin.tree = ExampleTree
                 => result = Ok(Meta(Some(StrX), None, None, None, None, None,
                                     JObj(KeyIgnored :> JObj(KeyBo :> JNum(1)))))

C10_Witness ==
    /\ pc = "done" /\ ignore_unknown = "Export" /\ BlobIsMap
    /\ origin.tree = ExampleTree
    /\ result.kind = "Ok"
    /\ result.meta.extra.v[KeyIgnored].v[KeyBo] = JNum(1)

\* The identity field of record m stored under key k.
FieldOf(m, k) ==
    CASE k = KeyName -> m.name
      [] k = KeyAuth -> m.auth
      [] k = KeyFmt -> m.fmt
      [] k = KeyEd -> m.ed
      [] k = KeyVer -> m.ver
      [] k = KeyDesc -> m.desc

\* C12: Default of the extension field on decode.  Under every policy, a
\* blob encoding a map without the key extra yields a record whose extra is
\* the empty object, the value Metadata::new and Default produce, and whose
\* identity fields are None for every identity key the map does not carry.
\* (Under Export the maps considered have no unknown keys, which would be
\* merged into extra.)
C12_AbsentExtraIsEmptyObject ==
    (/\ pc = "done" /\ result.kind = "Ok" /\ BlobIsMap
     /\ ~HasKey(KeyExtra)
     /\ ignore_unknown = "Export" => UnknownKeys = << >>)
        => /\ result.meta.extra = MetadataDefault.extra
           /\ \A k \in IdentityFields : ~HasKey(k) => FieldOf(result.meta, k) = None

\* The bytes collected from the header blocks decode to a value that is no
\* object.
TopLevelNotObject ==
    /\ metadata_bytes # << >>
    /\ LET full_value == from_slice_value(metadata_bytes)
       IN full_value.ok /\ ~is_object(full_value.val)

\* C17: Export fallback equivalence.  Under Export, for every blob whose
\* top-level decoded value is not an object (an array-encoded record, for
\* one), read_metadata returns exactly what it returns under On for the
\* same bytes, and no "ignored" key is inserted: what pack encoded comes
\* back as it was.
C17_ExportFallback ==
    (pc = "done" /\ ignore_unknown = "Export" /\ TopLevelNotObject)
        => /\ result = read_metadata_from_file(file, "On").res
           /\ origin.how = "pack" => result = Ok(PackedMetadata)

C17_Witness ==
    /\ pc = "done" /\ ignore_unknown = "Export" /\ TopLevelNotObject
    /\ origin.how = "split"
    /\ origin.tree = SerMetadata(MetadataNew(Some(StrX), None, None, None, None, None))
    /\ result = Ok(MetadataNew(Some(StrX), None, None, None, None, None))

----------------------------------------------------------------------------
(* The record API *)

\* The six identity fields of a record.
Identity(m) == << m.name, m.auth, m.fmt, m.ed, m.ver, m.desc >>

\* The keys of j when j is an object, none otherwise.
KeysOf(j) == IF is_object(j) THEN DOMAIN j.v ELSE {}

\* The ignored map inside an extra value, as merge_unknown_fields finds it:
\* a non-object extra, or a missing or non-object ignored, counts as empty.
IgnoredOf(extra) ==
    IF is_object(extra) /\ KeyIgnored \in DOMAIN extra.v
    THEN extra.v[KeyIgnored]
    ELSE JObj(EmptyMap)

\* C11: after merge_unknown_fields with an object U, extra is an object,
\* extra.ignored is an object, extra.ignored[k] = U[k] for every key k of U
\* (overwriting a previous value under k); a non-object extra or
\* extra.ignored is replaced by an empty object first; the other keys of an
\* object extra, the keys of an object extra.ignored that are not in U, and
\* the six identity fields are unchanged.
C11_MergePostcondition ==
    (op = "merge" /\ is_object(arg)) =>
       /\ is_object(rec.extra)
       /\ KeyIgnored \in DOMAIN rec.extra.v
       /\ is_object(rec.extra.v[KeyIgnored])
       /\ LET ign == rec.extra.v[KeyIgnored].v
              old == IgnoredOf(before.extra)
          IN /\ DOMAIN ign = DOMAIN arg.v \cup KeysOf(old)
             /\ \A k \in DOMAIN arg.v : ign[k] = arg.v[k]
             /\ \A k \in KeysOf(old) \ DOMAIN arg.v : ign[k] = old.v[k]
       /\ DOMAIN rec.extra.v = KeysOf(before.extra) \cup { KeyIgnored }
       /\ \A k \in KeysOf(before.extra) \ { KeyIgnored } : rec.extra.v[k] = before.extra.v[k]
       /\ Identity(rec) = Identity(before)

\* A scalar extra.ignored replaced by the merged map.
C11_Witness ==
    /\ op = "merge"
    /\ arg = JObj(KeyBo :> JNum(1))
    /\ before.extra = JObj(KeyIgnored :> JStr(StrX))
    /\ rec.extra = JObj(KeyIgnored :> JObj(KeyBo :> JNum(1)))

\* C16: Extension-field shape invariant.  In every record reached through
\* Metadata::new, Default, with_extra, the side-file loading of pack,
\* merge_unknown_fields and read_metadata under any policy, extra is an
\* object, never null, a scalar or an array.
C16_ExtraIsObject == is_object(rec.extra)

----------------------------------------------------------------------------
(* pack and the output path *)

\* The error pack owes its caller, by the order of its checks: the source
\* first, then the side-file, then the encoded size ("Ok" when all pass).
ExpectedPackKind ==
    IF ~origin.source_exists THEN "SourceNotFound"
    ELSE IF origin.extra_file.state = "missing" THEN "ExtraFileNotFound"
    ELSE IF origin.extra_file.state = "malformed" THEN "Json"
    ELSE IF BLen(to_vec(PackedMetadata)) > 10 * 1024 * 1024 THEN "InvalidMetadataLength"
    ELSE "Ok"

\* A step in which pack returns an error.
PackFails == pc = "start" /\ pc' = "failed"

\* C13: No output on precondition failure.  pack checks the source first,
\* then the side-file, then the encoded size, and only then creates the
\* parent directories and the output file: when it returns SourceNotFound,
\* ExtraFileNotFound, a side-file parse failure or InvalidMetadataLength,
\* the output file is neither created nor overwritten and no parent
\* directory is created; a missing source is reported as SourceNotFound
\* even when the side-file is missing too.
C13_NoOutputOnFailure ==
    /\ [](origin.how = "pack" =>
             /\ pack_result.kind = ExpectedPackKind
             /\ pack_result.kind # "Ok" <=> pc = "failed")
    /\ [][PackFails => UNCHANGED << file, created, parent_exists >>]_vars

\* pack refused an oversized record and the file of an earlier run is still
\* there.
C13_Witness ==
    /\ pc = "failed"
    /\ pack_result.kind = "InvalidMetadataLength"
    /\ created
    /\ file = OldFile

----------------------------------------------------------------------------
(* unpack *)

\* The directory that holds the directory at d.
Above(d) == SubSeq(d, 1, Len(d) - 1)

\* The location q lies inside the directory at d.
Inside(d, q) == Len(q) > Len(d) /\ SubSeq(q, 1, Len(d)) = d

\* The metadata files there are.
Sidecars == { q \in DOMAIN fs.files : fs.files[q].kind = "json" }

\* C14: Sidecar placement.  After every successful unpack into D there is a
\* file metadata.json in the parent directory of D, not inside D, holding
\* the pretty-printed record unpack returns, and unpack writes no metadata
\* file inside D; the sidecar is written only after the header was decoded
\* and the archive extracted.
C14_SidecarPlacement ==
    pc = "unpacked" =>
       LET d == Resolve(output_dir)
       IN IF unpack_result.kind = "Ok"
          THEN /\ Sidecars = { Append(Above(d), "metadata.json") }
               /\ \A q \in Sidecars :
                     /\ fs.files[q] = to_string_pretty(unpack_result.meta)
                     /\ ~Inside(d, q)
          ELSE Sidecars = {}

====
